---- MODULE Spec2Model ----
(***************************************************************************)
(* LAQN-InfluxDB-Export: the export driver (main.py), the LAQNAPI object   *)
(* (modules/laqn.py) and TimeCalculator (modules/timetools.py).            *)
(*                                                                         *)
(* Instants are whole hours since an epoch day 0 at 00:00.  Dictionaries   *)
(* whose order matters to the code (laqn.metadata, the 'Pollutant Codes'   *)
(* map) are sequences of entries in insertion order; the others are        *)
(* functions.  Every unhandled exception ends the run in pc = "raised".    *)
(***************************************************************************)
EXTENDS Integers, Sequences, FiniteSets, TLC

VARIABLES
    pc,                    \* position of the running code
    start_date,            \* main.py: start_date (an instant)
    end_date,              \* main.py: end_date (an instant)
    weeks_to_download,     \* main.py: weeks_to_download
    week,                  \* main.py: loop variable of the outer loop
    station_idx,           \* main.py: position in laqn.metadata.items()
    config,                \* main.py: config_settings
    metadata,              \* LAQNAPI.metadata
    measurement_csvs,      \* LAQNAPI.measurement_csvs
    measurement_jsons,     \* LAQNAPI.measurement_jsons
    pollutants_per_stage,  \* get_measurements: the batches of the last call
    requests,              \* every HTTP request issued so far, in order
    written,               \* every list handed to influx.write_container_list
    events,                \* the driver's calls so far, in order
    call                   \* arguments of the method call under test

vars == << pc, start_date, end_date, weeks_to_download, week, station_idx,
           config, metadata, measurement_csvs, measurement_jsons,
           pollutants_per_stage, requests, written, events, call >>

----------------------------------------------------------------------------
\* Bounds of the model

MaxStartDay == 1
MaxEndDay == 15
MaxSites == 2
MaxPollutants == 6
MaxCodes == 11
MaxRows == 3

----------------------------------------------------------------------------
\* Program constants

HoursPerDay == 24
DaysPerWeek == 7
WindowDays == 7
BatchSize == 5

None == "<None>"
NaN == "NaN"
BadTime == -1

----------------------------------------------------------------------------
\* Python helpers

Min(a, b) == IF a < b THEN a ELSE b

\* int(np.ceil(n / d)) for d > 0
CeilDiv(n, d) == -((-n) \div d)

\* l[a:b] of a list (0-based, end exclusive, out-of-range bounds clipped)
Slice(l, a, b) ==
    LET lo == Min(a, Len(l))
        hi == Min(b, Len(l))
    IN  [i \in 1..(hi - lo) |-> l[lo + i]]

\* d[k] = v on a dict
Put(d, k, v) == [x \in (DOMAIN d) \cup {k} |-> IF x = k THEN v ELSE d[x]]

\* {**a, **b}: the keys of both, b's value where both have the key
Merge(a, b) ==
    [k \in (DOMAIN a) \cup (DOMAIN b) |-> IF k \in DOMAIN b THEN b[k] ELSE a[k]]

\* defaultdict(dict)
EmptyDict == << >>

\* d[k1][k2] = v on a defaultdict(dict): d[k1] is created when missing
Put2(d, k1, k2, v) ==
    Put(d, k1, Put(IF k1 \in DOMAIN d THEN d[k1] ELSE EmptyDict, k2, v))

\* date.strftime('%Y-%m-%d') and date.strftime('%d-%b-%Y'): the calendar
\* day of the instant, the time of day dropped
StrftimeDate(t) == t \div HoursPerDay

----------------------------------------------------------------------------
\* modules/timetools.py

day_difference(s, e) == (e - s) \div HoursPerDay

\* the week count truncated instead of rounded up
week_difference_truncated(s, e) == day_difference(s, e) \div DaysPerWeek

week_difference(s, e) == CeilDiv(day_difference(s, e), DaysPerWeek)

----------------------------------------------------------------------------
\* Configuration (Settings/config.json) as the code reads it

\* list(config['LAQN']['Pollutant Codes'].keys()): the keys in insertion order
CodeKeys(cfg) == [i \in 1..Len(cfg.Codes) |-> cfg.Codes[i].name]

\* pollutant in config['LAQN']['Pollutant Codes']
HasCode(cfg, p) == \E i \in 1..Len(cfg.Codes) : cfg.Codes[i].name = p

\* config['LAQN']['Pollutant Codes'][pollutant]
CodeOf(cfg, p) ==
    cfg.Codes[CHOOSE i \in 1..Len(cfg.Codes) : cfg.Codes[i].name = p].code

----------------------------------------------------------------------------
\* modules/laqn.py: get_metadata

\* a station record of the response has '@SiteName' and every configured key
StationComplete(station, cfg) ==
    /\ "@SiteName" \in DOMAIN station
    /\ (DOMAIN cfg.Tags) \cup (DOMAIN cfg.Fields) \subseteq DOMAIN station

\* {code: station[key] for key, code in projection.items()}
Project(station, projection) ==
    [code \in {projection[k] : k \in DOMAIN projection} |->
        station[CHOOSE k \in DOMAIN projection : projection[k] = code]]

StationDict(station, cfg) ==
    [name |-> station["@SiteName"],
     tags |-> Project(station, cfg.Tags),
     fields |-> Project(station, cfg.Fields)]

\* self.metadata[station_name] = station_dict: an existing key keeps its
\* place in the dict's order, a new key goes last
MetaPut(meta, entry) ==
    IF \E i \in 1..Len(meta) : meta[i].name = entry.name
    THEN [i \in 1..Len(meta) |->
             IF meta[i].name = entry.name THEN entry ELSE meta[i]]
    ELSE Append(meta, entry)

\* the loop over metadata_raw, for its first n stations
RECURSIVE MetaFold(_, _, _, _)
MetaFold(meta, raw, cfg, n) ==
    IF n = 0 THEN meta
    ELSE MetaPut(MetaFold(meta, raw, cfg, n - 1), StationDict(raw[n], cfg))

\* the stations the loop handles before a KeyError stops it
CompletePrefix(raw, cfg) ==
    IF \A i \in 1..Len(raw) : StationComplete(raw[i], cfg)
    THEN Len(raw)
    ELSE (CHOOSE i \in 1..Len(raw) :
             /\ ~StationComplete(raw[i], cfg)
             /\ \A j \in 1..(i - 1) : StationComplete(raw[j], cfg)) - 1

MetadataUrl(cfg) == [kind |-> "metadata", address |-> cfg.MetadataAddress]

\* get_metadata(laqn_config) when the server answers `response`: the request
\* fails (~response.ok) or returns response.sites, the list under
\* ['Sites']['Site'].  `raised` is whether the call ends in an exception.
get_metadata(cfg, response, raised) ==
    /\ requests' = Append(requests, MetadataUrl(cfg))
    /\ IF ~response.ok
       THEN /\ metadata' = metadata
            /\ raised = TRUE
       ELSE /\ metadata' = MetaFold(metadata, response.sites, cfg,
                                    CompletePrefix(response.sites, cfg))
            /\ raised = (CompletePrefix(response.sites, cfg) < Len(response.sites))

\* self.metadata[station_name]
HasStation(meta, name) == \E i \in 1..Len(meta) : meta[i].name = name

StationOf(meta, name) ==
    meta[CHOOSE i \in 1..Len(meta) : meta[i].name = name]

----------------------------------------------------------------------------
\* modules/laqn.py: get_measurements

\* the configured list taken as it is, also when empty
AllowedPollutants_as_configured(cfg) == cfg.Pollutants

AllowedPollutants(cfg) ==
    IF Len(cfg.Pollutants) = 0 THEN CodeKeys(cfg) ELSE cfg.Pollutants

\* the stage count truncated instead of rounded up
download_stages_truncated(allowed) == Len(allowed) \div BatchSize

download_stages(allowed) == CeilDiv(Len(allowed), BatchSize)

\* while len(pollutants) < 5: pollutants.append(None)
PadStage(pollutants) ==
    pollutants \o [i \in 1..(BatchSize - Len(pollutants)) |-> None]

StageSlice(allowed, download_stage) ==
    Slice(allowed, download_stage * BatchSize, download_stage * BatchSize + BatchSize)

PollutantsPerStage(allowed) ==
    [s \in 1..download_stages(allowed) |-> PadStage(StageSlice(allowed, s - 1))]

\* a slot of the batch is a pollutant without an entry in 'Pollutant Codes'
StageKeyError(cfg, pollutants) ==
    \E slot \in 1..BatchSize :
        pollutants[slot] # None /\ ~HasCode(cfg, pollutants[slot])

\* the query of one batch: &species1..5 hold the code, or "" for None
DataUrl(cfg, site_code, pollutants, start, end) ==
    [kind |-> "csv",
     address |-> cfg.CsvAddress,
     site |-> site_code,
     species |-> [slot \in 1..BatchSize |->
                     IF pollutants[slot] # None
                     THEN CodeOf(cfg, pollutants[slot]) ELSE ""],
     start |-> StrftimeDate(start),
     end |-> StrftimeDate(end),
     res |-> "6",
     period |-> cfg.Frequency]

\* the batch whose download raises, 0 when none does: the first batch with
\* an unknown pollutant or a failed pd.read_csv
FirstFailure(cfg, stages, resp) ==
    LET bad(i) == StageKeyError(cfg, stages[i]) \/ ~resp[i].ok
    IN  IF \E i \in 1..Len(stages) : bad(i)
        THEN CHOOSE i \in 1..Len(stages) :
                 bad(i) /\ \A j \in 1..(i - 1) : ~bad(j)
        ELSE 0

\* how many of the batches get their request sent
RequestsSent(cfg, stages, resp) ==
    LET f == FirstFailure(cfg, stages, resp)
    IN  IF f = 0 THEN Len(stages)
        ELSE IF StageKeyError(cfg, stages[f]) THEN f - 1 ELSE f

\* csv_measurements.append(raw_csv, ignore_index=True) over the first n batches
RECURSIVE AppendCsvs(_, _)
AppendCsvs(resp, n) ==
    IF n = 0 THEN << >> ELSE AppendCsvs(resp, n - 1) \o resp[n].rows

\* the table of the batches before the failed one stored all the same
get_measurements_partial(station_name, start, end, cfg, resp, raised) ==
    LET stages == PollutantsPerStage(AllowedPollutants(cfg))
    IN  /\ pollutants_per_stage' = stages
        /\ IF ~HasStation(metadata, station_name)
              \/ "Site Code" \notin DOMAIN StationOf(metadata, station_name).tags
           THEN /\ raised = TRUE
                /\ UNCHANGED << requests, measurement_csvs >>
           ELSE LET site_code == StationOf(metadata, station_name).tags["Site Code"]
                    sent == RequestsSent(cfg, stages, resp)
                    failed == FirstFailure(cfg, stages, resp)
                IN  /\ requests' = requests \o
                           [i \in 1..sent |->
                               DataUrl(cfg, site_code, stages[i], start, end)]
                    /\ raised = (failed # 0)
                    /\ measurement_csvs' =
                           Put2(measurement_csvs, StrftimeDate(start), station_name,
                                AppendCsvs(resp, IF failed # 0 THEN failed - 1
                                                 ELSE Len(stages)))

\* get_measurements(station_name, start_date, end_date, config) when the
\* server answers batch i with resp[i]: pd.read_csv raises (~resp[i].ok) or
\* returns resp[i].rows.  `raised` is whether the call ends in an exception.
get_measurements(station_name, start, end, cfg, resp, raised) ==
    LET stages == PollutantsPerStage(AllowedPollutants(cfg))
    IN  /\ pollutants_per_stage' = stages
        /\ IF ~HasStation(metadata, station_name)
              \/ "Site Code" \notin DOMAIN StationOf(metadata, station_name).tags
           THEN /\ raised = TRUE
                /\ UNCHANGED << requests, measurement_csvs >>
           ELSE LET site_code == StationOf(metadata, station_name).tags["Site Code"]
                    sent == RequestsSent(cfg, stages, resp)
                IN  /\ requests' = requests \o
                           [i \in 1..sent |->
                               DataUrl(cfg, site_code, stages[i], start, end)]
                    /\ raised = (FirstFailure(cfg, stages, resp) # 0)
                    /\ measurement_csvs' =
                           IF FirstFailure(cfg, stages, resp) # 0
                           THEN measurement_csvs
                           ELSE Put2(measurement_csvs, StrftimeDate(start),
                                     station_name, AppendCsvs(resp, Len(stages)))

----------------------------------------------------------------------------
\* modules/laqn.py: csv_to_json_list

\* row["Value"] != row["Value"]
IsNaN(value) == value = NaN

\* dt.datetime.strptime(text, "%d/%m/%Y %H:%M"): the instant, or BadTime
\* when the text is not in that format (ValueError)
Strptime(text) ==
    CASE text = "01/01/2021 00:00" -> 0
      [] text = "01/01/2021 01:00" -> 1
      [] text = "02/01/2021 00:00" -> HoursPerDay
      [] OTHER -> BadTime

\* f"{row['Species']} status"
StatusKey(species) ==
    CASE species = "NO2" -> "NO2 status"
      [] species = "PM10" -> "PM10 status"
      [] OTHER -> "? status"

\* f"{row['Species']} Units"
UnitsKey(species) ==
    CASE species = "NO2" -> "NO2 Units"
      [] species = "PM10" -> "PM10 Units"
      [] OTHER -> "? Units"

RowFields(row) == [k \in {row.Species} |-> row.Value]

RowTags(row) ==
    [k \in {StatusKey(row.Species), UnitsKey(row.Species)} |->
        IF k = StatusKey(row.Species) THEN row.Status ELSE row.Units]

\* the row's keys taking precedence over the station's
MergeFields_row_last(row, station) == Merge(station.fields, RowFields(row))

MergeTags(row, station) == Merge(RowTags(row), station.tags)

MergeFields(row, station) == Merge(RowFields(row), station.fields)

DataContainer(row, station) ==
    [time |-> Strptime(row.ReadingDateTime),
     measurement |-> "London Air Quality Network",
     fields |-> MergeFields(row, station),
     tags |-> MergeTags(row, station)]

\* no row skipped
SkipRow_never(row) == FALSE

\* the row is skipped: its Value is NaN
SkipRow(row) == IsNaN(row.Value)

\* the loop over csv_file.iterrows(), when no row raises
JsonList(csv_file, station) ==
    LET kept == SelectSeq(csv_file, LAMBDA row : ~SkipRow(row))
    IN  [i \in 1..Len(kept) |-> DataContainer(kept[i], station)]

\* a row that is not skipped raises: its ReadingDateTime is not in the
\* format (ValueError), or the station is not in self.metadata (KeyError)
JsonListRaises(csv_file, meta, station_name) ==
    \E i \in 1..Len(csv_file) :
        /\ ~SkipRow(csv_file[i])
        /\ \/ Strptime(csv_file[i].ReadingDateTime) = BadTime
           \/ ~HasStation(meta, station_name)

\* csv_to_json_list(station_name, date).  `raised` is whether the call ends
\* in an exception.  Reading measurement_csvs[key] creates the key.
csv_to_json_list(station_name, date, raised) ==
    LET key == StrftimeDate(date)
    IN  IF key \notin DOMAIN measurement_csvs
        THEN /\ measurement_csvs' = Put(measurement_csvs, key, EmptyDict)
             /\ raised = TRUE
             /\ UNCHANGED measurement_jsons
        ELSE /\ UNCHANGED measurement_csvs
             /\ IF station_name \notin DOMAIN measurement_csvs[key]
                THEN /\ raised = TRUE
                     /\ UNCHANGED measurement_jsons
                ELSE LET csv_file == measurement_csvs[key][station_name]
                     IN  IF JsonListRaises(csv_file, metadata, station_name)
                         THEN /\ raised = TRUE
                              /\ UNCHANGED measurement_jsons
                         ELSE /\ raised = FALSE
                              /\ measurement_jsons' =
                                     Put2(measurement_jsons, key, station_name,
                                          JsonList(csv_file,
                                                   StationOf(metadata, station_name)))

\* the tables kept
clear_measurement_csvs_kept == measurement_csvs' = measurement_csvs

clear_measurement_csvs == measurement_csvs' = EmptyDict

clear_measurement_jsons == measurement_jsons' = EmptyDict

----------------------------------------------------------------------------
\* Inputs: the configuration, the server's answers, the command line

SiteA ==
    ("@SiteName" :> "Site A") @@ ("@SiteCode" :> "A1")
        @@ ("@Latitude" :> "51.5") @@ ("@SiteType" :> "Roadside")

SiteB ==
    ("@SiteName" :> "Site B") @@ ("@SiteCode" :> "B1")
        @@ ("@Latitude" :> "51.6") @@ ("@SiteType" :> "Urban")

\* a record of the response without the configured '@Latitude'
SiteIncomplete == ("@SiteName" :> "Site C") @@ ("@SiteCode" :> "C1")

RawSites == {SiteA, SiteB, SiteIncomplete}

\* the lists over S of length at most n
SeqsUpTo(S, n) == UNION {[1..k -> S] : k \in 0..n}

MetadataResponses ==
    {[ok |-> FALSE, sites |-> << >>]}
        \cup {[ok |-> TRUE, sites |-> l] : l \in SeqsUpTo(RawSites, MaxSites)}

\* config['LAQN']['Tags'] and ['Fields'], source key -> output code; in the
\* second pair an output code is also a key the rows of Species NO2 produce
PlainProjection ==
    [Tags |-> ("@SiteCode" :> "Site Code"),
     Fields |-> ("@Latitude" :> "Latitude")]

CollidingProjection ==
    [Tags |-> ("@SiteCode" :> "Site Code") @@ ("@SiteType" :> "NO2 Units"),
     Fields |-> ("@Latitude" :> "NO2")]

Projections == {PlainProjection, CollidingProjection}

\* config['LAQN']['Pollutant Codes'], in the order of the file
AllCodes ==
    << [name |-> "NO2", code |-> "NO2"],
       [name |-> "PM10", code |-> "PM10"],
       [name |-> "O3", code |-> "O3"],
       [name |-> "SO2", code |-> "SO2"],
       [name |-> "CO", code |-> "CO"],
       [name |-> "PM25", code |-> "PM25"],
       [name |-> "NO", code |-> "NO"],
       [name |-> "NOX", code |-> "NOX"],
       [name |-> "BENZ", code |-> "BENZ"],
       [name |-> "TOLU", code |-> "TOLU"],
       [name |-> "WSPD", code |-> "WSPD"],
       [name |-> "WDIR", code |-> "WDIR"],
       [name |-> "TMP", code |-> "TMP"],
       [name |-> "RHUM", code |-> "RHUM"] >>

Codes(n) == Slice(AllCodes, 0, n)

\* the names a 'Pollutants' list is drawn from; "XX" has no code
PollutantNames == {"NO2", "PM10", "XX"}

Config(pollutants, codes, projection) ==
    [Pollutants |-> pollutants,
     Codes |-> codes,
     Tags |-> projection.Tags,
     Fields |-> projection.Fields,
     Frequency |-> "15min",
     MetadataAddress |-> "api/MonitoringSiteSpecies",
     CsvAddress |-> "londonair/data.csv?"]

Row(species, value, time) ==
    [Species |-> species, ReadingDateTime |-> time, Value |-> value,
     Units |-> "ug m-3", Status |-> "R"]

\* the rows of a csv: a reading, a NaN reading, a reading whose time is not in
\* the format
Rows ==
    {Row(sp, v, t) : sp \in {"NO2", "PM10"}, v \in {NaN, "1.5"},
                     t \in {"01/01/2021 00:00", "01/01/2021 01:00",
                            "2021-01-01 00:00"}}

\* what pd.read_csv does for one batch
Response(ok, rows) == [ok |-> ok, rows |-> rows]

----------------------------------------------------------------------------
\* main.py: the driver

DriverPollutants == { << >>, <<"NO2">>, <<"PM10", "XX">> }

DriverConfigs ==
    {Config(p, Codes(BatchSize + 1), pr) : p \in DriverPollutants, pr \in Projections}

DriverTables ==
    { << >>,
      << Row("NO2", NaN, "01/01/2021 00:00"), Row("NO2", "1.5", "01/01/2021 00:00") >>,
      << Row("PM10", "1.5", "2021-01-01 00:00") >> }

DriverResponses ==
    {Response(FALSE, << >>)} \cup {Response(TRUE, t) : t \in DriverTables}

\* parse_date_string: every accepted format gives a day at 00:00
Midnight(day) == day * HoursPerDay

NoCall == [station_name |-> "", date |-> 0, to_station |-> ""]

Init ==
    /\ pc = "dates"
    /\ start_date \in {Midnight(d) : d \in 0..MaxStartDay}
    /\ end_date \in {Midnight(d) : d \in 0..MaxEndDay}
    /\ weeks_to_download = 0
    /\ week = 0
    /\ station_idx = 0
    /\ config \in DriverConfigs
    /\ metadata = << >>
    /\ measurement_csvs = EmptyDict
    /\ measurement_jsons = EmptyDict
    /\ pollutants_per_stage = << >>
    /\ requests = << >>
    /\ written = << >>
    /\ events = << >>
    /\ call = NoCall

\* the window start moved on by one day per week
CurrentWeek_daily == start_date + HoursPerDay * week

\* current_week = start_date + dt.timedelta(days=7*week)
CurrentWeek == start_date + HoursPerDay * WindowDays * week

\* the station of the inner loop
Station == metadata[station_idx].name

\* a call of the loop body: its window key and station, whether it returned
\* (ok) or raised, and the table or point list it produced or handed on
Event(op, ok, data) ==
    [op |-> op, key |-> StrftimeDate(CurrentWeek), station |-> Station,
     ok |-> ok, data |-> data]

\* where the two loops start: range(0, weeks) is empty for weeks <= 0, and
\* with no station every week's inner loop is empty
LoopStart(weeks, n) ==
    IF weeks <= 0 THEN [pc |-> "done", week |-> week, station_idx |-> station_idx]
    ELSE IF n = 0 THEN [pc |-> "done", week |-> weeks - 1, station_idx |-> station_idx]
    ELSE [pc |-> "fetch", week |-> 0, station_idx |-> 1]

\* the inner loop ending one station early
LoopNext_short(w, i, weeks, n) ==
    IF i + 1 < n THEN [pc |-> "fetch", week |-> w, station_idx |-> i + 1]
    ELSE IF w + 1 < weeks THEN [pc |-> "fetch", week |-> w + 1, station_idx |-> 1]
    ELSE [pc |-> "done", week |-> w, station_idx |-> i]

\* where the loops go after the body of (w, i)
LoopNext(w, i, weeks, n) ==
    IF i < n THEN [pc |-> "fetch", week |-> w, station_idx |-> i + 1]
    ELSE IF w + 1 < weeks THEN [pc |-> "fetch", week |-> w + 1, station_idx |-> 1]
    ELSE [pc |-> "done", week |-> w, station_idx |-> i]

\* time_config = TimeCalculator(start_date, end_date) and week_difference()
ComputeWeeks ==
    /\ pc = "dates"
    /\ weeks_to_download' = week_difference(start_date, end_date)
    /\ pc' = "metadata"
    /\ UNCHANGED << start_date, end_date, week, station_idx, config, metadata,
                    measurement_csvs, measurement_jsons, pollutants_per_stage,
                    requests, written, events, call >>

\* laqn = LAQNAPI(); laqn.get_metadata(config_settings['LAQN']), then the
\* loops are entered
LoadMetadata ==
    /\ pc = "metadata"
    /\ \E response \in MetadataResponses, raised \in BOOLEAN :
        /\ get_metadata(config, response, raised)
        /\ LET to == IF raised
                     THEN [pc |-> "raised", week |-> week, station_idx |-> station_idx]
                     ELSE LoopStart(weeks_to_download, Len(metadata'))
           IN  /\ pc' = to.pc
               /\ week' = to.week
               /\ station_idx' = to.station_idx
        /\ events' = Append(events,
               [op |-> "metadata", key |-> 0, station |-> "", ok |-> ~raised,
                data |-> << >>])
    /\ UNCHANGED << start_date, end_date, weeks_to_download, config,
                    measurement_csvs, measurement_jsons, pollutants_per_stage,
                    written, call >>

\* get_measurements wrapped in try/except: a failed fetch skips the station
Fetch_isolated ==
    /\ pc = "fetch"
    /\ \E resp \in [1..download_stages(AllowedPollutants(config)) -> DriverResponses],
          raised \in BOOLEAN :
        /\ get_measurements(Station, CurrentWeek,
                            CurrentWeek + HoursPerDay * WindowDays,
                            config, resp, raised)
        /\ LET to == IF raised
                     THEN LoopNext(week, station_idx, weeks_to_download, Len(metadata))
                     ELSE [pc |-> "transform", week |-> week, station_idx |-> station_idx]
           IN  /\ pc' = to.pc
               /\ week' = to.week
               /\ station_idx' = to.station_idx
        /\ events' = Append(events,
               Event("fetch", ~raised,
                     IF raised THEN << >>
                     ELSE measurement_csvs'[StrftimeDate(CurrentWeek)][Station]))
    /\ UNCHANGED << start_date, end_date, weeks_to_download,
                    config, metadata, measurement_jsons, written, call >>

\* laqn.get_measurements(station, current_week, current_week + 7 days, config)
Fetch ==
    /\ pc = "fetch"
    /\ \E resp \in [1..download_stages(AllowedPollutants(config)) -> DriverResponses],
          raised \in BOOLEAN :
        /\ get_measurements(Station, CurrentWeek,
                            CurrentWeek + HoursPerDay * WindowDays,
                            config, resp, raised)
        /\ pc' = IF raised THEN "raised" ELSE "transform"
        /\ events' = Append(events,
               Event("fetch", ~raised,
                     IF raised THEN << >>
                     ELSE measurement_csvs'[StrftimeDate(CurrentWeek)][Station]))
    /\ UNCHANGED << start_date, end_date, weeks_to_download, week, station_idx,
                    config, metadata, measurement_jsons, written, call >>

\* laqn.csv_to_json_list(station, current_week)
Transform ==
    /\ pc = "transform"
    /\ \E raised \in BOOLEAN :
        /\ csv_to_json_list(Station, CurrentWeek, raised)
        /\ pc' = IF raised THEN "raised" ELSE "flush"
        /\ events' = Append(events,
               Event("transform", ~raised,
                     IF raised THEN << >>
                     ELSE measurement_jsons'[StrftimeDate(CurrentWeek)][Station]))
    /\ UNCHANGED << start_date, end_date, weeks_to_download, week, station_idx,
                    config, metadata, pollutants_per_stage, requests, written, call >>

\* influx.write_container_list(laqn.measurement_jsons[key][station])
Flush ==
    /\ pc = "flush"
    /\ LET points == measurement_jsons[StrftimeDate(CurrentWeek)][Station]
       IN  /\ written' = Append(written, points)
           /\ events' = Append(events, Event("flush", TRUE, points))
    /\ pc' = "release_csvs"
    /\ UNCHANGED << start_date, end_date, weeks_to_download, week, station_idx,
                    config, metadata, measurement_csvs, measurement_jsons,
                    pollutants_per_stage, requests, call >>

\* laqn.clear_measurement_csvs()
ReleaseCsvs ==
    /\ pc = "release_csvs"
    /\ clear_measurement_csvs
    /\ pc' = "release_jsons"
    /\ UNCHANGED << start_date, end_date, weeks_to_download, week, station_idx,
                    config, metadata, measurement_jsons, pollutants_per_stage,
                    requests, written, events, call >>

\* laqn.clear_measurement_jsons(), and the loops move on
ReleaseJsons ==
    /\ pc = "release_jsons"
    /\ clear_measurement_jsons
    /\ events' = Append(events, Event("release", TRUE, << >>))
    /\ LET to == LoopNext(week, station_idx, weeks_to_download, Len(metadata))
       IN  /\ pc' = to.pc
           /\ week' = to.week
           /\ station_idx' = to.station_idx
    /\ UNCHANGED << start_date, end_date, weeks_to_download, config, metadata,
                    measurement_csvs, pollutants_per_stage, requests, written, call >>

Next ==
    \/ ComputeWeeks
    \/ LoadMetadata
    \/ Fetch
    \/ Transform
    \/ Flush
    \/ ReleaseCsvs
    \/ ReleaseJsons

Spec == Init /\ [][Next]_vars

----------------------------------------------------------------------------
\* LAQNAPI.get_measurements called on its own: a new LAQNAPI, get_metadata
\* (the response holds Site A), then one get_measurements with any
\* configured list of pollutants

BatchConfigs ==
    {Config(p, Codes(n), PlainProjection) :
        p \in SeqsUpTo(PollutantNames, MaxPollutants), n \in 0..MaxCodes}

BatchResponses ==
    {Response(FALSE, << >>),
     Response(TRUE, << Row("NO2", "1.5", "01/01/2021 00:00") >>)}

NewLAQNAPI ==
    /\ metadata = << >>
    /\ measurement_csvs = EmptyDict
    /\ measurement_jsons = EmptyDict
    /\ pollutants_per_stage = << >>
    /\ requests = << >>

NoDriver ==
    /\ start_date = 0
    /\ end_date = 0
    /\ weeks_to_download = 0
    /\ week = 0
    /\ station_idx = 0
    /\ written = << >>
    /\ events = << >>

InitBatch ==
    /\ pc = "b_new"
    /\ config \in BatchConfigs
    /\ call \in [station_name : {"Site A", "Site Z"}, date : {Midnight(0)},
                 to_station : {""}]
    /\ NewLAQNAPI
    /\ NoDriver

BatchGetMetadata ==
    /\ pc = "b_new"
    /\ \E raised \in BOOLEAN :
        /\ get_metadata(config, [ok |-> TRUE, sites |-> <<SiteA>>], raised)
        /\ pc' = IF raised THEN "b_raised" ELSE "b_ready"
    /\ UNCHANGED << start_date, end_date, weeks_to_download, week, station_idx,
                    config, measurement_csvs, measurement_jsons,
                    pollutants_per_stage, written, events, call >>

BatchGetMeasurements ==
    /\ pc = "b_ready"
    /\ \E resp \in [1..download_stages(AllowedPollutants(config)) -> BatchResponses],
          raised \in BOOLEAN :
        /\ get_measurements(call.station_name, call.date,
                            call.date + HoursPerDay * WindowDays,
                            config, resp, raised)
        /\ pc' = IF raised THEN "b_raised" ELSE "b_returned"
    /\ UNCHANGED << start_date, end_date, weeks_to_download, week, station_idx,
                    config, metadata, measurement_jsons, written, events, call >>

NextBatch == BatchGetMetadata \/ BatchGetMeasurements

SpecBatch == InitBatch /\ [][NextBatch]_vars

----------------------------------------------------------------------------
\* LAQNAPI.csv_to_json_list called on its own: a new LAQNAPI, get_metadata,
\* get_measurements(call.station_name, day 0, ...) returning any table, then
\* one csv_to_json_list(call.to_station, call.date)

TransformConfigs ==
    {Config(<<"NO2", "PM10">>, Codes(2), pr) : pr \in Projections}

TransformResponses == {Response(TRUE, t) : t \in SeqsUpTo(Rows, MaxRows)}

InitTransform ==
    /\ pc = "t_new"
    /\ config \in TransformConfigs
    /\ call \in [station_name : {"Site A", "Site B"},
                 date : {Midnight(0), Midnight(1)},
                 to_station : {"Site A", "Site B"}]
    /\ NewLAQNAPI
    /\ NoDriver

TransformGetMetadata ==
    /\ pc = "t_new"
    /\ \E raised \in BOOLEAN :
        /\ get_metadata(config, [ok |-> TRUE, sites |-> <<SiteA, SiteB>>], raised)
        /\ pc' = IF raised THEN "t_raised" ELSE "t_ready"
    /\ UNCHANGED << start_date, end_date, weeks_to_download, week, station_idx,
                    config, measurement_csvs, measurement_jsons,
                    pollutants_per_stage, written, events, call >>

\* the table is stored under day 0
TransformGetMeasurements ==
    /\ pc = "t_ready"
    /\ \E resp \in [1..download_stages(AllowedPollutants(config)) -> TransformResponses],
          raised \in BOOLEAN :
        /\ get_measurements(call.station_name, Midnight(0),
                            Midnight(0) + HoursPerDay * WindowDays,
                            config, resp, raised)
        /\ pc' = IF raised THEN "t_raised" ELSE "t_fetched"
    /\ UNCHANGED << start_date, end_date, weeks_to_download, week, station_idx,
                    config, metadata, measurement_jsons, written, events, call >>

TransformCsvToJsonList ==
    /\ pc = "t_fetched"
    /\ \E raised \in BOOLEAN :
        /\ csv_to_json_list(call.to_station, call.date, raised)
        /\ pc' = IF raised THEN "t_raised" ELSE "t_returned"
    /\ UNCHANGED << start_date, end_date, weeks_to_download, week, station_idx,
                    config, metadata, pollutants_per_stage, requests, written,
                    events, call >>

NextTransform ==
    \/ TransformGetMetadata
    \/ TransformGetMeasurements
    \/ TransformCsvToJsonList

SpecTransform == InitTransform /\ [][NextTransform]_vars

----------------------------------------------------------------------------
\* LAQNAPI.get_metadata called twice on one object: a new LAQNAPI, then
\* get_metadata with any response, then get_metadata again with any response

MetadataConfigs == {Config(<< >>, Codes(2), pr) : pr \in Projections}

\* a get_metadata call: the list the server returned and the catalog it left
MetadataEvent(response, raised, catalog) ==
    [op |-> "metadata", ok |-> ~raised, data |-> response.sites,
     catalog |-> catalog]

InitMetadata ==
    /\ pc = "m_new"
    /\ config \in MetadataConfigs
    /\ call = NoCall
    /\ NewLAQNAPI
    /\ NoDriver

MetadataFirst ==
    /\ pc = "m_new"
    /\ \E response \in MetadataResponses, raised \in BOOLEAN :
        /\ get_metadata(config, response, raised)
        /\ pc' = IF raised THEN "m_raised" ELSE "m_once"
        /\ events' = Append(events, MetadataEvent(response, raised, metadata'))
    /\ UNCHANGED << start_date, end_date, weeks_to_download, week, station_idx,
                    config, measurement_csvs, measurement_jsons,
                    pollutants_per_stage, written, call >>

MetadataAgain ==
    /\ pc = "m_once"
    /\ \E response \in MetadataResponses, raised \in BOOLEAN :
        /\ get_metadata(config, response, raised)
        /\ pc' = IF raised THEN "m_raised" ELSE "m_twice"
        /\ events' = Append(events, MetadataEvent(response, raised, metadata'))
    /\ UNCHANGED << start_date, end_date, weeks_to_download, week, station_idx,
                    config, measurement_csvs, measurement_jsons,
                    pollutants_per_stage, written, call >>

NextMetadata == MetadataFirst \/ MetadataAgain

SpecMetadata == InitMetadata /\ [][NextMetadata]_vars

----------------------------------------------------------------------------
\* LAQNAPI.get_measurements called on an object that holds data: a new
\* LAQNAPI, get_metadata, get_measurements("Site A", day 0, ...),
\* csv_to_json_list("Site A", day 0), then
\* get_measurements(call.to_station, call.date, ...) with any configuration

InitRefetch ==
    /\ pc = "r_new"
    /\ config \in DriverConfigs
    /\ call \in [station_name : {"Site A"},
                 date : {Midnight(0), Midnight(WindowDays)},
                 to_station : {"Site A", "Site B"}]
    /\ NewLAQNAPI
    /\ NoDriver

RefetchGetMetadata ==
    /\ pc = "r_new"
    /\ \E raised \in BOOLEAN :
        /\ get_metadata(config, [ok |-> TRUE, sites |-> <<SiteA, SiteB>>], raised)
        /\ pc' = IF raised THEN "r_raised" ELSE "r_ready"
    /\ UNCHANGED << start_date, end_date, weeks_to_download, week, station_idx,
                    config, measurement_csvs, measurement_jsons,
                    pollutants_per_stage, written, events, call >>

RefetchFirst ==
    /\ pc = "r_ready"
    /\ \E resp \in [1..download_stages(AllowedPollutants(config)) -> DriverResponses],
          raised \in BOOLEAN :
        /\ get_measurements(call.station_name, Midnight(0),
                            Midnight(0) + HoursPerDay * WindowDays,
                            config, resp, raised)
        /\ pc' = IF raised THEN "r_raised" ELSE "r_fetched"
    /\ UNCHANGED << start_date, end_date, weeks_to_download, week, station_idx,
                    config, metadata, measurement_jsons, written, events, call >>

RefetchCsvToJsonList ==
    /\ pc = "r_fetched"
    /\ \E raised \in BOOLEAN :
        /\ csv_to_json_list(call.station_name, Midnight(0), raised)
        /\ pc' = IF raised THEN "r_raised" ELSE "r_transformed"
    /\ UNCHANGED << start_date, end_date, weeks_to_download, week, station_idx,
                    config, metadata, pollutants_per_stage, requests, written,
                    events, call >>

RefetchSecond ==
    /\ pc = "r_transformed"
    /\ \E cfg \in DriverConfigs :
        \E resp \in [1..download_stages(AllowedPollutants(cfg)) -> DriverResponses],
           raised \in BOOLEAN :
            /\ get_measurements(call.to_station, call.date,
                                call.date + HoursPerDay * WindowDays,
                                cfg, resp, raised)
            /\ config' = cfg
            /\ pc' = IF raised THEN "r_failed" ELSE "r_returned"
    /\ UNCHANGED << start_date, end_date, weeks_to_download, week, station_idx,
                    metadata, measurement_jsons, written, events, call >>

NextRefetch ==
    \/ RefetchGetMetadata
    \/ RefetchFirst
    \/ RefetchCsvToJsonList
    \/ RefetchSecond

SpecRefetch == InitRefetch /\ [][NextRefetch]_vars

----------------------------------------------------------------------------
\* Properties of the driver (Spec)

\* the whole days from start_date to end_date, found by search
WholeDays ==
    CHOOSE d \in 0..(MaxEndDay + 1) :
        /\ HoursPerDay * d <= end_date - start_date
        /\ end_date - start_date < HoursPerDay * (d + 1)

\* n is the least count of 7-day windows with 7 * n >= d
IsCeilWeeks(n, d) == DaysPerWeek * n >= d /\ DaysPerWeek * (n - 1) < d

FetchEvents == {i \in 1..Len(events) : events[i].op = "fetch"}

FlushEvents == {i \in 1..Len(events) : events[i].op = "flush"}

FailedFetches == {i \in FetchEvents : ~events[i].ok}

\* the window keys the driver has fetched
WindowsIterated == {events[i].key : i \in FetchEvents}

\* C1 as stated: for end >= start the driver's window count is
\* ceil(day difference / 7), and every day difference below 7 gives 1 window
C1_Original ==
    (pc # "dates" /\ end_date >= start_date) =>
        /\ IsCeilWeeks(weeks_to_download, WholeDays)
        /\ (WholeDays < DaysPerWeek => weeks_to_download = 1)

\* C1 as amended: for end >= start the driver's window count is
\* ceil(day difference / 7); a day difference of 1 to 7 gives exactly 1 window
\* and a day difference of 0 gives 0 windows; a finished run with stations
\* has fetched exactly that many windows
C1_WindowCount ==
    (pc # "dates" /\ end_date >= start_date) =>
        /\ IsCeilWeeks(weeks_to_download, WholeDays)
        /\ (WholeDays \in 1..DaysPerWeek => weeks_to_download = 1)
        /\ (WholeDays = 0 => weeks_to_download = 0)
        /\ (pc = "done" /\ Len(metadata) > 0 =>
                Cardinality(WindowsIterated) = weeks_to_download)

C1_Witness ==
    /\ pc = "done"
    /\ end_date - start_date = HoursPerDay
    /\ weeks_to_download = 1
    /\ Cardinality(WindowsIterated) = 1
    /\ Len(written) >= 1

\* the pair (window, station) the k-th body of the loops works on, k from 0
BodyKey(k) ==
    StrftimeDate(start_date + HoursPerDay * WindowDays * (k \div Len(metadata)))

BodyStation(k) == metadata[(k % Len(metadata)) + 1].name

BodyOps == <<"fetch", "transform", "flush", "release">>

C8_PipelineOrder ==
    /\ \A i \in 1..Len(requests) : (requests[i].kind = "metadata") = (i = 1)
    /\ (events # << >> => events[1].op = "metadata")
    /\ \A i \in 2..Len(events) :
        LET k == (i - 2) \div Len(BodyOps)
        IN  /\ events[1].ok
            /\ events[i].op = BodyOps[((i - 2) % Len(BodyOps)) + 1]
            /\ events[i].key = BodyKey(k)
            /\ events[i].station = BodyStation(k)
            /\ k < weeks_to_download * Len(metadata)
            /\ (events[i].op = "flush" =>
                   /\ events[i - 1].ok
                   /\ events[i].data = events[i - 1].data
                   /\ written[k + 1] = events[i].data)
    /\ Len(written) = Cardinality(FlushEvents)
    /\ (pc = "done" =>
           \A w \in 0..(weeks_to_download - 1), n \in 1..Len(metadata) :
               Cardinality({i \in FlushEvents :
                   /\ events[i].key = StrftimeDate(start_date + HoursPerDay * WindowDays * w)
                   /\ events[i].station = metadata[n].name}) = 1)

\* a finished run over two windows and two stations that flushed points
C8_Witness ==
    /\ pc = "done"
    /\ weeks_to_download >= 2
    /\ Len(metadata) = 2
    /\ Len(written) = weeks_to_download * 2
    /\ \E j \in 1..Len(written) : written[j] # << >>

\* the (key, station) pairs a container holds
Pairs(d) == UNION {{<<k, st>> : st \in DOMAIN d[k]} : k \in DOMAIN d}

\* C9: the two containers together never hold more than one (window,
\* station) pair, the one being worked on, and both are empty whenever a
\* fetch is about to begin and when the run is done
C9_OnePairHeld ==
    /\ Cardinality((DOMAIN measurement_csvs) \cup (DOMAIN measurement_jsons)) <= 1
    /\ Cardinality(Pairs(measurement_csvs) \cup Pairs(measurement_jsons)) <= 1
    /\ (pc \in {"transform", "flush", "release_csvs", "release_jsons"} =>
           Pairs(measurement_csvs) \cup Pairs(measurement_jsons)
               \subseteq {<<StrftimeDate(CurrentWeek), Station>>})
    /\ (pc \in {"fetch", "done"} =>
           measurement_csvs = EmptyDict /\ measurement_jsons = EmptyDict)

\* the next fetch is about to begin after a flush of points
C9_Witness ==
    /\ pc = "fetch"
    /\ Len(written) >= 1
    /\ written[Len(written)] # << >>
    /\ measurement_csvs = EmptyDict
    /\ measurement_jsons = EmptyDict

\* C10 as stated: with end before start the run ends in an exception before
\* any request is made and nothing is flushed
C10_Original ==
    (end_date < start_date /\ pc # "dates") =>
        /\ pc = "raised"
        /\ requests = << >>
        /\ written = << >>

----------------------------------------------------------------------------
\* Properties of get_measurements (SpecBatch)

\* the slot of the batches the i-th pollutant of the list belongs in
SlotOf(i) == pollutants_per_stage[((i - 1) \div BatchSize) + 1][((i - 1) % BatchSize) + 1]

\* C2: after get_measurements has built its batches for a list of length L
\* there are ceil(L / 5) batches of exactly 5 slots; a None slot is in the
\* last batch with only None after it; slot by slot the batches hold the list
\* in order, once each; a request sent has "" exactly in the None slots
C2_Batches ==
    pc \in {"b_returned", "b_raised"} =>
        LET allowed == IF config.Pollutants = << >>
                       THEN CodeKeys(config) ELSE config.Pollutants
            L == Len(allowed)
            stages == pollutants_per_stage
        IN  /\ BatchSize * Len(stages) >= L
            /\ BatchSize * (Len(stages) - 1) < L
            /\ \A s \in 1..Len(stages) : Len(stages[s]) = BatchSize
            /\ \A s \in 1..Len(stages), slot \in 1..BatchSize :
                   /\ (stages[s][slot] = None =>
                          /\ s = Len(stages)
                          /\ \A t \in slot..BatchSize : stages[s][t] = None)
                   /\ ((s - 1) * BatchSize + slot <= L =>
                          stages[s][slot] = allowed[(s - 1) * BatchSize + slot])
                   /\ ((s - 1) * BatchSize + slot > L => stages[s][slot] = None)
            /\ \A i \in 2..Len(requests), slot \in 1..BatchSize :
                   (requests[i].species[slot] = "") = (stages[i - 1][slot] = None)

\* two batches, the second partly filled, both requested
C2_Witness ==
    /\ pc = "b_returned"
    /\ Len(config.Pollutants) > BatchSize
    /\ Len(pollutants_per_stage) = 2
    /\ pollutants_per_stage[2][1] # None
    /\ pollutants_per_stage[2][BatchSize] = None
    /\ Len(requests) = 3

\* C3: with an empty 'Pollutants' list the batches hold every key of the
\* pollutant-code map, in the map's order, and nothing else; a non-empty map
\* gives at least one batch
C3_EmptyListMeansAll ==
    (pc \in {"b_returned", "b_raised"} /\ config.Pollutants = << >>) =>
        /\ BatchSize * Len(pollutants_per_stage) >= Len(config.Codes)
        /\ \A i \in 1..Len(config.Codes) : SlotOf(i) = config.Codes[i].name
        /\ Cardinality({<<s, slot>> \in (1..Len(pollutants_per_stage)) \X (1..BatchSize) :
               pollutants_per_stage[s][slot] # None}) = Len(config.Codes)
        /\ (Len(config.Codes) > 0 => Len(pollutants_per_stage) >= 1)

\* an empty list and a code map that needs two batches
C3_Witness ==
    /\ pc = "b_returned"
    /\ config.Pollutants = << >>
    /\ Len(config.Codes) > BatchSize
    /\ Len(pollutants_per_stage) = 2
    /\ Len(requests) = 3

----------------------------------------------------------------------------
\* Properties of csv_to_json_list (SpecTransform)

\* the table csv_to_json_list read and the list it stored
TableRead == measurement_csvs[StrftimeDate(call.date)][call.to_station]

PointsMade == measurement_jsons[StrftimeDate(call.date)][call.to_station]

\* the rows of the table up to row i whose Value is not NaN
RowsKept(i) == {j \in 1..i : TableRead[j].Value # NaN}

\* C4: when csv_to_json_list returns, the list has one point per row whose
\* Value is not NaN, in row order, and none for a NaN row; when it raises no
\* list is stored
C4_NaNRowsDropped ==
    /\ (pc = "t_returned" =>
           /\ Len(PointsMade) = Len(TableRead)
                  - Cardinality({j \in 1..Len(TableRead) : TableRead[j].Value = NaN})
           /\ \A i \in RowsKept(Len(TableRead)) :
                  LET point == PointsMade[Cardinality(RowsKept(i))]
                  IN  /\ point.time = Strptime(TableRead[i].ReadingDateTime)
                      /\ StatusKey(TableRead[i].Species) \in DOMAIN point.tags)
    /\ (pc = "t_raised" => measurement_jsons = EmptyDict)

\* a NaN row between two readings of different species and times
C4_Witness ==
    /\ pc = "t_returned"
    /\ Len(TableRead) = 3
    /\ TableRead[1].Value # NaN
    /\ TableRead[2].Value = NaN
    /\ TableRead[3].Value # NaN
    /\ TableRead[1].Species # TableRead[3].Species
    /\ TableRead[1].ReadingDateTime # TableRead[3].ReadingDateTime
    /\ Len(PointsMade) = 2

\* C5: every point's tags and fields have every static key of the station,
\* with the station's value
C5_StaticKept ==
    pc = "t_returned" =>
        LET station == StationOf(metadata, call.to_station)
        IN  \A i \in 1..Len(PointsMade) :
                /\ \A k \in DOMAIN station.tags :
                       /\ k \in DOMAIN PointsMade[i].tags
                       /\ PointsMade[i].tags[k] = station.tags[k]
                /\ \A k \in DOMAIN station.fields :
                       /\ k \in DOMAIN PointsMade[i].fields
                       /\ PointsMade[i].fields[k] = station.fields[k]

\* a point of a row whose Species is also a static field and whose Units key
\* is also a static tag
C5_Witness ==
    /\ pc = "t_returned"
    /\ Len(PointsMade) >= 1
    /\ \E i \in RowsKept(Len(TableRead)) :
           /\ TableRead[i].Species \in DOMAIN StationOf(metadata, call.to_station).fields
           /\ UnitsKey(TableRead[i].Species)
                  \in DOMAIN StationOf(metadata, call.to_station).tags

\* C6 as stated: every point's fields are the station's static fields plus
\* exactly one more field, keyed by the row's Species and holding its Value
C6_Original ==
    pc = "t_returned" =>
        LET station == StationOf(metadata, call.to_station)
        IN  \A i \in RowsKept(Len(TableRead)) :
                LET point == PointsMade[Cardinality(RowsKept(i))]
                IN  /\ DOMAIN station.fields \subseteq DOMAIN point.fields
                    /\ TableRead[i].Species \in DOMAIN point.fields
                    /\ point.fields[TableRead[i].Species] = TableRead[i].Value
                    /\ Cardinality(DOMAIN point.fields)
                           = Cardinality(DOMAIN station.fields) + 1

----------------------------------------------------------------------------
\* Properties of get_metadata (SpecMetadata)

CatalogNames == {metadata[i].name : i \in 1..Len(metadata)}

\* the station names of the response of the last get_metadata call
LatestNames ==
    {events[Len(events)].data[j]["@SiteName"] :
        j \in 1..Len(events[Len(events)].data)}

\* C11 as stated: after get_metadata returns, the catalog holds exactly the
\* stations of the latest response, and the same response fetched twice
\* leaves the catalog as fetching it once did
C11_Original ==
    pc \in {"m_once", "m_twice"} =>
        /\ CatalogNames = LatestNames
        /\ (pc = "m_twice" /\ events[1].data = events[2].data =>
               metadata = events[1].catalog)

----------------------------------------------------------------------------
\* Properties of a failed get_measurements (SpecRefetch)

\* C12: a get_measurements call that raises (a failed batch request, also
\* after earlier batches succeeded, or a pollutant without a code) leaves
\* measurement_csvs and measurement_jsons exactly as they were before the
\* call: no table, partial or empty, is stored
C12_FailedFetchStoresNothing ==
    [][(pc \in {"r_ready", "r_transformed"} /\ pc' \in {"r_raised", "r_failed"}) =>
          /\ measurement_csvs' = measurement_csvs
          /\ measurement_jsons' = measurement_jsons]_vars

\* the second call, for another window, failed at its second batch while
\* both containers held the first call's data
C12_Witness ==
    /\ pc = "r_failed"
    /\ call.date # Midnight(0)
    /\ Len(requests) >= 2
    /\ requests[Len(requests)].start = StrftimeDate(call.date)
    /\ requests[Len(requests) - 1].kind = "csv"
    /\ requests[Len(requests) - 1].start = StrftimeDate(call.date)
    /\ Pairs(measurement_csvs) = {<<StrftimeDate(Midnight(0)), "Site A">>}
    /\ Pairs(measurement_jsons) = {<<StrftimeDate(Midnight(0)), "Site A">>}
    /\ measurement_jsons[StrftimeDate(Midnight(0))]["Site A"] # << >>

----------------------------------------------------------------------------
\* Properties of the driver's windows (Spec)

CsvRequests == {i \in 1..Len(requests) : requests[i].kind = "csv"}

\* the days start + 7 * w for w = 0 .. weeks_to_download - 1
WindowStarts ==
    {StrftimeDate(start_date) + WindowDays * w : w \in 0..(weeks_to_download - 1)}

\* C13: for start <= end every measurement request and every fetch is for a
\* window starting at start + 7 * w, w < windowCount, and spanning 7 days;
\* the window keys never decrease and a station is never fetched twice under
\* one key; a finished run with stations has fetched exactly those windows,
\* and every day from start up to but not including end lies in exactly one
\* of the half-open spans [key, key + 7)
C13_WindowsCoverRange ==
    (pc # "dates" /\ start_date <= end_date) =>
        /\ \A i \in CsvRequests :
               /\ requests[i].start \in WindowStarts
               /\ requests[i].end = requests[i].start + WindowDays
        /\ \A i \in FetchEvents : events[i].key \in WindowStarts
        /\ \A i, j \in FetchEvents :
               i < j =>
                   /\ events[i].key <= events[j].key
                   /\ (events[i].station = events[j].station =>
                          events[i].key < events[j].key)
        /\ (pc = "done" /\ Len(metadata) > 0 =>
               /\ WindowsIterated = WindowStarts
               /\ {requests[i].start : i \in CsvRequests} = WindowStarts
               /\ \A d \in StrftimeDate(start_date)..(StrftimeDate(end_date) - 1) :
                      Cardinality({k \in WindowsIterated :
                                      k <= d /\ d < k + WindowDays}) = 1)

\* a finished run over 15 days: three windows for two stations
C13_Witness ==
    /\ pc = "done"
    /\ StrftimeDate(end_date) - StrftimeDate(start_date) = 2 * WindowDays + 1
    /\ weeks_to_download = 3
    /\ Len(metadata) = 2
    /\ Cardinality(WindowsIterated) = 3
    /\ Cardinality(CsvRequests) >= 6

====
